---------------------------- MODULE Spec2Model ----------------------------
(***************************************************************************)
(* A model of src/main.cpp, the cache benchmark: the arena and the chain   *)
(* builders, the 64-bit linear congruential generator behind shuffle, the  *)
(* stride-doubling loop of find_rest_spots, find_jump and                  *)
(* find_cache_line_size.                                                   *)
(*                                                                         *)
(* Four specifications share the module:                                   *)
(*   SpecChain     one trial of measure(): the builders and the walk, on   *)
(*                 an arena of ArenaSize slots;                            *)
(*   SpecJump      find_jump on a summed duration curve;                   *)
(*   SpecLine      find_cache_line_size on per-stride medians;             *)
(*   Spec          main(): find_rest_spots, find_jump, the line-size       *)
(*                 sweep and the summary, at the program's real sizes,     *)
(*                 the outcome of each timing comparison left open.        *)
(*                                                                         *)
(* Conventions.  The address &a[k] is the slot index k, and adding         *)
(* n * sizeof(std::uint64_t) bytes to an address adds n to the index.      *)
(* A std::uint64_t that can leave TLC's integer range (rng_seed, the       *)
(* doubled stride) is a tuple of eight bytes, least significant first.     *)
(* Durations are positive integer ticks and every ratio test of the code   *)
(* is cross-multiplied, which is exact; for such small integers the        *)
(* code's double division rounds both sides of a comparison the same way.  *)
(***************************************************************************)
EXTENDS Integers, Sequences, FiniteSets, TLC

VARIABLES
    pc,            \* the position of the modelled run
    a,             \* the arena: slot index -> stored value
    rng_seed,      \* the generator's state (eight bytes)
    trial,         \* the trial under way: stride, spots, iteration, method
    walked,        \* the slots read by measure_walk's two passes
    curve,         \* find_jump / find_cache_line_size: the timing input
    answer,        \* find_jump / find_cache_line_size: the value returned
    stride,        \* find_rest_spots: the current stride (eight bytes)
    all_spots,     \* find_rest_spots: the current spots sequence
    prev_measured, \* find_rest_spots: spots -> number of samples
    new_measured,  \* find_rest_spots: spots -> number of samples
    batches,       \* the measure() calls of the last step
    lookups,       \* the map lookups of the last doubling round
    rest_spots,    \* main: the sequence find_rest_spots returned
    jump,          \* main: the value find_jump returned
    cache_line_size, \* main: the value find_cache_line_size returned
    summary        \* main: the printed fields

vars == <<pc, a, rng_seed, trial, walked, curve, answer, stride, all_spots,
          prev_measured, new_measured, batches, lookups, rest_spots, jump,
          cache_line_size, summary>>

chainVars == <<a, rng_seed, trial, walked>>
pureVars == <<curve, answer>>
pipeVars == <<stride, all_spots, prev_measured, new_measured, batches,
              lookups, rest_spots, jump, cache_line_size, summary>>

(***************************************************************************)
(* Program constants.                                                      *)
(***************************************************************************)
max_discover_mem == 32768
max_check_mem == 16777216
step == 512
iterations == 9
lookbehind_offset == 16
min_stride == 2
max_stride == 128
initial_stride == 2
sizeof_slot == 8

(***************************************************************************)
(* Bounds of the model.                                                    *)
(***************************************************************************)
MaxStride == 3
MaxSpots == 4
MaxLen == 4
MaxMedian == 7

ArenaSize == MaxStride * MaxSpots

(***************************************************************************)
(* std::uint64_t as eight bytes, least significant first.                  *)
(***************************************************************************)
Bytes == 1..8

U64FromNat(n) ==
    [k \in Bytes |-> IF k = 1 THEN n % 256
                     ELSE IF k = 2 THEN (n \div 256) % 256
                     ELSE IF k = 3 THEN (n \div 65536) % 256
                     ELSE IF k = 4 THEN n \div 16777216
                     ELSE 0]

U64IsZero(x) == \A k \in Bytes : x[k] = 0

\* x < 2^24: its value is an integer TLC can hold
U64IsSmall(x) == \A k \in 4..8 : x[k] = 0

U64Val(x) == x[1] + 256 * x[2] + 65536 * x[3]

RECURSIVE Carry(_, _, _)
\* the columns cols[k..8] with carry c, reduced to bytes; a carry out of
\* byte 8 is dropped (arithmetic modulo 2^64)
Carry(cols, k, c) ==
    IF k > 8 THEN <<>>
    ELSE <<(cols[k] + c) % 256>> \o Carry(cols, k + 1, (cols[k] + c) \div 256)

U64Add(x, y) == Carry([k \in Bytes |-> x[k] + y[k]], 1, 0)

RECURSIVE Column(_, _, _, _)
\* the sum of x[i] * y[k + 1 - i] for i in 1..n
Column(x, y, k, n) ==
    IF n = 0 THEN 0 ELSE x[n] * y[k + 1 - n] + Column(x, y, k, n - 1)

U64Mul(x, y) == Carry([k \in Bytes |-> Column(x, y, k, k)], 1, 0)

RECURSIVE ModFrom(_, _, _, _)
ModFrom(x, m, k, r) ==
    IF k = 0 THEN r ELSE ModFrom(x, m, k - 1, (r * 256 + x[k]) % m)

\* x % m for 0 < m < 2^23
U64Mod(x, m) == ModFrom(x, m, 8, 0)

(***************************************************************************)
(* rng(): rng_seed * 2862933555777941757 + 3037000493, modulo 2^64.        *)
(***************************************************************************)
rng_multiplier == <<253, 176, 176, 135, 230, 46, 187, 39>>
rng_increment == <<45, 243, 4, 181, 0, 0, 0, 0>>

rng(seed) == U64Add(U64Mul(seed, rng_multiplier), rng_increment)


(***************************************************************************)
(* The arena and the pattern builders.                                     *)
(***************************************************************************)
Slots == 0..(ArenaSize - 1)

\* the content of a slot that was never written
Uninit == -1

RECURSIVE ForwardLinks(_, _, _, _)
\* the loop of create_forward_chain from index i on
ForwardLinks(arr, stride_, spots, i) ==
    IF i >= spots - 1 THEN arr
    ELSE ForwardLinks([arr EXCEPT ![i * stride_] = (i + 1) * stride_],
                      stride_, spots, i + 1)

CreateChainNoWrap(arr, stride_, spots) ==
    LET size == stride_ * spots
        linked == ForwardLinks(arr, stride_, spots, 0)
    IN  [linked EXCEPT ![size - stride_] = size - stride_]

create_forward_chain(arr, stride_, spots) ==
    LET size == stride_ * spots
        linked == ForwardLinks(arr, stride_, spots, 0)
    IN  [linked EXCEPT ![size - stride_] = 0]

Swap(arr, p, q) == [arr EXCEPT ![p] = arr[q], ![q] = arr[p]]

RECURSIVE ShuffleFrom(_, _, _, _)
\* the loop of shuffle from index i down to 1; yields the arena and the seed
ShuffleFrom(arr, seed, stride_, i) ==
    IF i = 0 THEN [arr |-> arr, seed |-> seed]
    ELSE LET drawn == rng(seed)
             j == U64Mod(drawn, i + 1)
         IN  ShuffleFrom(Swap(arr, i * stride_, j * stride_), drawn,
                         stride_, i - 1)

shuffle(arr, seed, stride_, spots) == ShuffleFrom(arr, seed, stride_, spots - 1)

RECURSIVE HalfLinks(_, _, _, _)
\* the loop of measure_shuffled that links the half-stride slots
HalfLinks(arr, stride_, spots, i) ==
    IF i >= spots THEN arr
    ELSE HalfLinks([arr EXCEPT ![i * stride_ + stride_ \div 2] =
                                   arr[i * stride_] + stride_ \div 2],
                   stride_, spots, i + 1)

\* 2^64 - lookbehind_offset
minus_lookbehind == <<240, 255, 255, 255, 255, 255, 255, 255>>

\* (i + spots - lookbehind_offset) % spots in 64-bit unsigned arithmetic
BehindIndex(i, spots) ==
    IF i + spots >= lookbehind_offset
    THEN (i + spots - lookbehind_offset) % spots
    ELSE U64Mod(U64Add(U64FromNat(i + spots), minus_lookbehind), spots)

RECURSIVE LookbehindLinks(_, _, _, _)
\* the loop of measure_lookbehind
LookbehindLinks(arr, stride_, spots, i) ==
    IF i >= spots THEN arr
    ELSE LET behind_ptr == BehindIndex(i, spots) * stride_ + stride_ \div 2
             stored == [arr EXCEPT ![behind_ptr] = arr[i * stride_]]
         IN  LookbehindLinks([stored EXCEPT ![i * stride_] = behind_ptr],
                             stride_, spots, i + 1)

RECURSIVE Path(_, _, _)
\* the slots read by n pointer-chase steps from slot p
Path(arr, p, n) ==
    IF n = 0 \/ p \notin DOMAIN arr THEN <<>>
    ELSE <<p>> \o Path(arr, arr[p], n - 1)

RECURSIVE Chase(_, _, _)
\* the pointer after n pointer-chase steps from slot p
Chase(arr, p, n) ==
    IF n = 0 \/ p \notin DOMAIN arr THEN p ELSE Chase(arr, arr[p], n - 1)

\* measure_walk: the warm-up pass from &a[0] and the timed pass from
\* &a[initial_offset].  Both make ops = 2^20 steps, many times the chain
\* length; the first `spots` steps of each are recorded, with the pointer
\* they end on.
measure_walk(arr, spots, initial_offset) ==
    [warm |-> Path(arr, 0, spots),
     timed |-> Path(arr, initial_offset, spots),
     back |-> Chase(arr, initial_offset, spots)]

Methods == {"shuffled", "lookbehind"}

NoTrial == [stride |-> 0, spots |-> 0, i |-> 0, method |-> "none"]
NoWalk == [warm |-> <<>>, timed |-> <<>>, back |-> Uninit]

(***************************************************************************)
(* SpecChain: one trial of measure() after another.                        *)
(***************************************************************************)
ChainIdle ==
    /\ a = [k \in Slots |-> Uninit]
    /\ rng_seed = U64FromNat(0)
    /\ trial = NoTrial
    /\ walked = NoWalk

PureIdle == curve = <<>> /\ answer = 0

PipeIdle ==
    /\ stride = U64FromNat(0)
    /\ all_spots = <<>>
    /\ prev_measured = <<>>
    /\ new_measured = <<>>
    /\ batches = {}
    /\ lookups = {}
    /\ rest_spots = <<>>
    /\ jump = 0
    /\ cache_line_size = 0
    /\ summary = <<>>

InitChain == pc = "idle" /\ ChainIdle /\ PureIdle /\ PipeIdle

\* the trial after t in measure()'s loops: spots innermost, then i
LastTrial(t) == t.i = iterations - 1 /\ t.spots = MaxSpots

AfterTrial(t) ==
    IF t.spots < MaxSpots THEN [t EXCEPT !.spots = t.spots + 1]
    ELSE [t EXCEPT !.i = t.i + 1, !.spots = 1]

\* measure(stride, all_spots, method) is entered with all_spots = 1..MaxSpots:
\* the first trial is seeded (rng_seed = spots + i)
BeginBatch ==
    /\ pc = "idle" \/ (pc = "walked" /\ LastTrial(trial))
    /\ \E st \in 1..MaxStride, m \in Methods :
          trial' = [stride |-> st, spots |-> 1, i |-> 0, method |-> m]
    /\ rng_seed' = U64FromNat(1 + 0)
    /\ walked' = NoWalk
    /\ pc' = "seeded"
    /\ UNCHANGED <<a, pureVars, pipeVars>>

\* measure(), lines 201-210: the next trial of the batch is seeded
NextTrial ==
    /\ pc = "walked"
    /\ ~LastTrial(trial)
    /\ trial' = AfterTrial(trial)
    /\ rng_seed' = U64FromNat(trial'.spots + trial'.i)
    /\ walked' = NoWalk
    /\ pc' = "seeded"
    /\ UNCHANGED <<a, pureVars, pipeVars>>

CreateForwardChain ==
    /\ pc = "seeded"
    /\ a' = create_forward_chain(a, trial.stride, trial.spots)
    /\ pc' = "chained"
    /\ UNCHANGED <<rng_seed, trial, walked, pureVars, pipeVars>>

Shuffle ==
    /\ pc = "chained"
    /\ trial.method = "shuffled"
    /\ LET r == shuffle(a, rng_seed, trial.stride, trial.spots)
       IN  a' = r.arr /\ rng_seed' = r.seed
    /\ pc' = "permuted"
    /\ UNCHANGED <<trial, walked, pureVars, pipeVars>>

LinkHalf ==
    /\ pc = "permuted"
    /\ a' = HalfLinks(a, trial.stride, trial.spots, 0)
    /\ pc' = "built"
    /\ UNCHANGED <<rng_seed, trial, walked, pureVars, pipeVars>>

Lookbehind ==
    /\ pc = "chained"
    /\ trial.method = "lookbehind"
    /\ a' = LookbehindLinks(a, trial.stride, trial.spots, 0)
    /\ pc' = "built"
    /\ UNCHANGED <<rng_seed, trial, walked, pureVars, pipeVars>>

InitialOffset(t) == IF t.method = "shuffled" THEN t.stride \div 2 ELSE 0

MeasureWalk ==
    /\ pc = "built"
    /\ walked' = measure_walk(a, trial.spots, InitialOffset(trial))
    /\ pc' = "walked"
    /\ UNCHANGED <<a, rng_seed, trial, pureVars, pipeVars>>

NextChain ==
    \/ BeginBatch
    \/ NextTrial
    \/ CreateForwardChain
    \/ Shuffle
    \/ LinkHalf
    \/ Lookbehind
    \/ MeasureWalk

SpecChain == InitChain /\ [][NextChain]_vars

\* the live nodes of a chain and the half-stride nodes of a shuffled one
LiveNodes(t) == {i * t.stride : i \in 0..(t.spots - 1)}
HalfNodes(t) == {i * t.stride + t.stride \div 2 : i \in 0..(t.spots - 1)}

Range(s) == {s[k] : k \in DOMAIN s}

\* seq lists every element of S exactly once
ListsOnce(seq, S) == Len(seq) = Cardinality(S) /\ Range(seq) = S

(***************************************************************************)
(* next_spots and make_spots.  The stride is a 64-bit value; spots values  *)
(* stay far below 2^31.                                                    *)
(***************************************************************************)
U64LeNat(x, n) == U64IsSmall(x) /\ U64Val(x) <= n

next_spots(stride_, spots) ==
    IF U64LeNat(U64Mul(U64FromNat(spots), stride_), step) THEN spots * 2
    ELSE IF ~U64LeNat(stride_, step) THEN spots + 1
    ELSE spots + step \div U64Val(stride_)

\* The loop of make_spots (line 220) is unrolled in blocks of BlockLen
\* iterations, which keeps TLC's evaluation shallow; the sequence is the
\* loop's.
BlockLen == 8

RECURSIVE SpotsBlock(_, _, _, _)
\* at most n iterations of the loop from `spots` on
SpotsBlock(stride_, spots, max_spots, n) ==
    IF n = 0 \/ spots > max_spots THEN <<>>
    ELSE <<spots>> \o SpotsBlock(stride_, next_spots(stride_, spots),
                                 max_spots, n - 1)

RECURSIVE SpotsFrom(_, _, _)
\* the loop of make_spots from `spots` on
SpotsFrom(stride_, spots, max_spots) ==
    LET block == SpotsBlock(stride_, spots, max_spots, BlockLen)
    IN  IF Len(block) < BlockLen THEN block
        ELSE block \o SpotsFrom(stride_,
                                next_spots(stride_, block[BlockLen]),
                                max_spots)

\* max_discover_mem / stride, for a stride that is not 0
DiscoverQuotient(stride_) ==
    IF U64LeNat(stride_, max_discover_mem)
    THEN max_discover_mem \div U64Val(stride_)
    ELSE 0

\* make_spots, given the value of max_discover_mem / stride
MakeSpotsFrom(stride_, quotient) ==
    SpotsFrom(stride_, 1, next_spots(stride_, quotient))

make_spots(stride_) == MakeSpotsFrom(stride_, DiscoverQuotient(stride_))

(***************************************************************************)
(* find_jump on the summed durations.  `sums` maps each spots value to     *)
(* sum(measured[spots]) in ticks; the smoothed suffix is kept multiplied   *)
(* by 2^(n-1), n the length of the sequence, so that every halving is      *)
(* exact.                                                                  *)
(***************************************************************************)
jump_ratio_permille == 1045
smooth_ratio_percent == 112

RECURSIVE Pow2(_)
Pow2(n) == IF n = 0 THEN 1 ELSE 2 * Pow2(n - 1)

RECURSIVE SmoothFrom(_, _)
\* the loop of lines 294-298 from index i down to 2 (alpha = 0.5)
SmoothFrom(smooth, i) ==
    IF i <= 1 THEN smooth
    ELSE SmoothFrom([smooth EXCEPT ![i - 1] = (smooth[i - 1] + smooth[i]) \div 2],
                    i - 1)

\* smooth_suffix of lines 287-298, times 2^(n-1)
SmoothSuffix(search_spots, sums) ==
    LET n == Len(search_spots)
    IN  SmoothFrom([k \in 1..n |-> sums[search_spots[k]] * Pow2(n - 1)], n)

\* line 314 with the smoothed value scaled by `scale`
Qualifies(result, next_result, smooth_next, scale) ==
    /\ next_result * 1000 >= jump_ratio_permille * result
    /\ smooth_next * 100 >= smooth_ratio_percent * result * scale

QualifiesOwnSuffix(search_spots, sums, smooth, i) ==
    Qualifies(sums[search_spots[i]], sums[search_spots[i + 1]],
              smooth[i], Pow2(Len(search_spots) - 1))

QualifiesNextOnly(search_spots, sums, smooth, i) ==
    sums[search_spots[i + 1]] * 1000
        >= jump_ratio_permille * sums[search_spots[i]]

\* lines 310-314 at index i
JumpAt(search_spots, sums, smooth, i) ==
    Qualifies(sums[search_spots[i]], sums[search_spots[i + 1]],
              smooth[i + 1], Pow2(Len(search_spots) - 1))

RECURSIVE ScanFrom(_, _, _, _)
\* the loop of lines 308-321 from index i on
ScanFrom(search_spots, sums, smooth, i) ==
    IF i > Len(search_spots) - 1 THEN 0
    ELSE IF JumpAt(search_spots, sums, smooth, i) THEN search_spots[i]
    ELSE ScanFrom(search_spots, sums, smooth, i + 1)

find_jump(search_spots, sums) ==
    ScanFrom(search_spots, sums, SmoothSuffix(search_spots, sums), 1)

(***************************************************************************)
(* SpecJump: find_jump applied to one summed duration curve.               *)
(***************************************************************************)
\* summed durations in ticks of 1/100 of the baseline 1.0
Durations == {100, 110, 120, 123, 124, 250}

\* spots sequences as find_rest_spots returns them: strictly increasing
JumpSpots ==
    {SubSeq(make_spots(U64FromNat(initial_stride)), 1, n) : n \in 1..MaxLen}

InitJump ==
    /\ pc = "jump_input"
    /\ \E sp \in JumpSpots :
          \E sums \in [Range(sp) -> Durations] :
              curve = [search_spots |-> sp, sums |-> sums]
    /\ answer = 0
    /\ ChainIdle
    /\ PipeIdle

FindJumpOnCurve ==
    /\ pc = "jump_input"
    /\ answer' = find_jump(curve.search_spots, curve.sums)
    /\ pc' = "jump_done"
    /\ UNCHANGED <<curve, chainVars, pipeVars>>

NextJump == FindJumpOnCurve

SpecJump == InitJump /\ [][NextJump]_vars

\* the curve read by position
CurveAt(k) == curve.sums[curve.search_spots[k]]
CurveLen == Len(curve.search_spots)

\* every position is at `base` but position p, which is higher
IsSpike(p, base) ==
    /\ p \in 1..CurveLen
    /\ CurveAt(p) > base
    /\ \A k \in 1..CurveLen : k # p => CurveAt(k) = base

\* flat at 1.0 for the first k positions, at least 1.2 at every later one,
\* and there is a later one
IsStep(k) ==
    /\ k >= 1
    /\ k < CurveLen
    /\ \A j \in 1..k : CurveAt(j) = 100
    /\ \A j \in (k + 1)..CurveLen : CurveAt(j) >= 120

(***************************************************************************)
(* find_cache_line_size on the per-stride medians.  max_speedup is the     *)
(* fraction num / den.                                                     *)
(***************************************************************************)
RECURSIVE SweepFrom(_)
\* the strides of the loop of line 331
SweepFrom(stride_) ==
    IF stride_ > max_stride THEN <<>> ELSE <<stride_>> \o SweepFrom(stride_ * 2)

SweepStrides == SweepFrom(min_stride)

TakesOverStrict(result, previous_result, max_speedup) ==
    result * max_speedup.den > max_speedup.num * previous_result

\* line 348: result / previous_result >= max_speedup
TakesOver(result, previous_result, max_speedup) ==
    result * max_speedup.den >= max_speedup.num * previous_result

RECURSIVE LineScan(_, _, _, _)
\* the loop of lines 343-353 from (1-based) position i on
LineScan(results, i, max_speedup, cache_line_stride) ==
    IF i > Len(results) THEN cache_line_stride
    ELSE LET stride_ == min_stride * Pow2(i - 1)
         IN  IF TakesOver(results[i], results[i - 1], max_speedup)
             THEN LineScan(results, i + 1,
                           [num |-> results[i], den |-> results[i - 1]],
                           stride_ \div 2)
             ELSE LineScan(results, i + 1, max_speedup, cache_line_stride)

\* lines 340-355, given the medians of lines 331-338
LineSizeOf(results) == LineScan(results, 2, [num |-> 1, den |-> 1], 1)

(***************************************************************************)
(* SpecLine: find_cache_line_size; the median the timing yields at each    *)
(* stride is any duration.                                                 *)
(***************************************************************************)
Medians == 1..MaxMedian

InitLine ==
    /\ pc = "line_input"
    /\ curve \in [1..Len(SweepStrides) -> Medians]
    /\ answer = 0
    /\ ChainIdle
    /\ PipeIdle

FindLineSizeOnMedians ==
    /\ pc = "line_input"
    /\ answer' = LineSizeOf(curve)
    /\ pc' = "line_done"
    /\ UNCHANGED <<curve, chainVars, pipeVars>>

NextLine == FindLineSizeOnMedians

SpecLine == InitLine /\ [][NextLine]_vars

\* the ratio at transition i (from stride i-1 to stride i) is at least the
\* ratio at transition j
RatioGe(i, j) == curve[i] * curve[j - 1] >= curve[j] * curve[i - 1]

Transitions == 2..Len(SweepStrides)

IsMaxRatio(i) == \A j \in Transitions : RatioGe(i, j)

SomeRatioAtLeastOne == \E i \in Transitions : curve[i] >= curve[i - 1]

(***************************************************************************)
(* measure() and find_rest_spots.  A measured map holds, for each spots    *)
(* value, the number of samples pushed onto its list; the durations        *)
(* themselves are the timing's and are left open.                          *)
(***************************************************************************)
\* the elements of a finite set of integers in ascending order (std::set)
Ascending(S) ==
    [k \in 1..Cardinality(S) |->
        CHOOSE x \in S : Cardinality({y \in S : y < x}) = k - 1]

\* measure(), lines 199-213: every occurrence of a spots value in the
\* sequence pushes one sample in each of the iterations
measure(spots_seq) ==
    [sp \in Range(spots_seq) |->
        iterations * Cardinality({k \in DOMAIN spots_seq : spots_seq[k] = sp})]

\* the size of m[key]; operator[] creates an empty list for an absent key
SizeAt(m, key) == IF key \in DOMAIN m THEN m[key] ELSE 0

\* lines 240-245: what one spots value adds to new_spots
Inserted(spots) == {spots} \cup (IF spots > 1 THEN {spots \div 2} ELSE {})

NewSpots(spots_seq) == UNION {Inserted(spots_seq[k]) : k \in DOMAIN spots_seq}

HalfKeyFloor(spots) == spots \div 2

\* lines 258 and 270: the key of the half distance
HalfKey(spots) == (spots \div 2) + (spots % 2)

\* lines 251-260: the lists summed in one round
RoundLookups(spots_seq, prev, new) ==
    UNION {{[map |-> "prev", spots |-> spots_seq[k], key |-> spots_seq[k],
             size |-> SizeAt(prev, spots_seq[k])],
            [map |-> "new", spots |-> spots_seq[k], key |-> spots_seq[k],
             size |-> SizeAt(new, spots_seq[k])],
            [map |-> "half", spots |-> spots_seq[k],
             key |-> HalfKey(spots_seq[k]),
             size |-> SizeAt(new, HalfKey(spots_seq[k]))]}
           : k \in DOMAIN spots_seq}

\* full_distance < half_distance (line 263) can hold only when some spots
\* value has a half key other than itself: otherwise the two sums are the
\* same.  When it can hold, the timing decides.
ExitOutcomes(spots_seq) ==
    IF \E k \in DOMAIN spots_seq : HalfKey(spots_seq[k]) # spots_seq[k]
    THEN BOOLEAN
    ELSE {FALSE}

ScaleSpotsQuarter(spots_seq, stride_, first_stride) ==
    [k \in DOMAIN spots_seq |->
        spots_seq[k] * ((U64Val(stride_) \div 4) \div first_stride)]

\* lines 266-273: spots *= stride / 2 / initial_stride
ScaleSpots(spots_seq, stride_, first_stride) ==
    [k \in DOMAIN spots_seq |->
        spots_seq[k] * ((U64Val(stride_) \div 2) \div first_stride)]

Batch(stride_, spots_set, method) ==
    [stride |-> stride_, spots |-> spots_set, method |-> method]

\* lines 308-321: find_jump returns search_spots[i] for an i before the last
\* position, or 0; the timing decides which
JumpOutcomes(search_spots) ==
    {0} \cup {search_spots[k] : k \in 1..(Len(search_spots) - 1)}

SweepSpotsOfMinStride(stride_) == max_check_mem \div min_stride

\* line 333
SweepSpots(stride_) == max_check_mem \div stride_

\* the median durations of the line-size sweep: each of two latencies
LineLevels == {10, 40}

(***************************************************************************)
(* Spec: main().                                                           *)
(***************************************************************************)
Init == pc = "main" /\ ChainIdle /\ PureIdle /\ PipeIdle

\* lines 229-232
FindRestSpotsBegin ==
    /\ pc = "main"
    /\ stride' = U64FromNat(initial_stride)
    /\ all_spots' = make_spots(stride')
    /\ prev_measured' = measure(all_spots')
    /\ batches' = {Batch(stride', Range(all_spots'), "shuffled")}
    /\ pc' = "doubling"
    /\ UNCHANGED <<new_measured, lookups, rest_spots, jump, cache_line_size,
                   summary, chainVars, pureVars>>

\* lines 236-260: the part every round of the loop runs
RoundMeasures ==
    /\ stride' = U64Mul(stride, U64FromNat(2))
    /\ new_measured' = measure(Ascending(NewSpots(all_spots)))
    /\ batches' = {Batch(stride', NewSpots(all_spots), "shuffled")}
    /\ lookups' = RoundLookups(all_spots, prev_measured, new_measured')

\* lines 263-276: full_distance < half_distance, the scaled sequence returns
RoundReturns ==
    /\ pc = "doubling"
    /\ TRUE \in ExitOutcomes(all_spots)
    /\ RoundMeasures
    /\ rest_spots' = ScaleSpots(all_spots, stride', initial_stride)
    /\ pc' = "rest_found"
    /\ UNCHANGED <<all_spots, prev_measured, jump, cache_line_size, summary,
                   chainVars, pureVars>>

\* lines 278-279, the doubled stride not 0
RoundContinues ==
    /\ pc = "doubling"
    /\ FALSE \in ExitOutcomes(all_spots)
    /\ RoundMeasures
    /\ ~U64IsZero(stride')
    /\ all_spots' = make_spots(stride')
    /\ prev_measured' = new_measured'
    /\ pc' = "doubling"
    /\ UNCHANGED <<rest_spots, jump, cache_line_size, summary, chainVars,
                   pureVars>>

\* lines 278-279, the doubled stride wrapped to 0: make_spots divides by
\* zero (line 219), which is undefined.  The division traps, or it yields 0
\* as on AArch64 and the loop goes on.
RoundDividesByZero ==
    /\ pc = "doubling"
    /\ FALSE \in ExitOutcomes(all_spots)
    /\ RoundMeasures
    /\ U64IsZero(stride')
    /\ \E trap \in BOOLEAN :
          IF trap
          THEN pc' = "trapped" /\ UNCHANGED <<all_spots, prev_measured>>
          ELSE /\ all_spots' = MakeSpotsFrom(stride', 0)
               /\ prev_measured' = new_measured'
               /\ pc' = "doubling"
    /\ UNCHANGED <<rest_spots, jump, cache_line_size, summary, chainVars,
                   pureVars>>

\* find_jump(initial_stride, rest_spots), lines 286-321
FindJump ==
    /\ pc = "rest_found"
    /\ batches' = {Batch(U64FromNat(initial_stride), Range(rest_spots),
                         "shuffled")}
    /\ lookups' = {[map |-> "measured", spots |-> rest_spots[k],
                    key |-> rest_spots[k],
                    size |-> SizeAt(measure(rest_spots), rest_spots[k])]
                   : k \in DOMAIN rest_spots}
    /\ jump' \in JumpOutcomes(rest_spots)
    /\ pc' = "jump_found"
    /\ UNCHANGED <<stride, all_spots, prev_measured, new_measured, rest_spots,
                   cache_line_size, summary, chainVars, pureVars>>

\* find_cache_line_size(), lines 329-355
FindCacheLineSize ==
    /\ pc = "jump_found"
    /\ batches' = {Batch(U64FromNat(SweepStrides[k]),
                         {SweepSpots(SweepStrides[k])}, "lookbehind")
                   : k \in DOMAIN SweepStrides}
    /\ lookups' = {[map |-> "measured", spots |-> SweepSpots(SweepStrides[k]),
                    key |-> SweepSpots(SweepStrides[k]),
                    size |-> SizeAt(measure(<<SweepSpots(SweepStrides[k])>>),
                                    SweepSpots(SweepStrides[k]))]
                   : k \in DOMAIN SweepStrides}
    /\ \E results \in [DOMAIN SweepStrides -> LineLevels] :
          cache_line_size' = LineSizeOf(results)
    /\ pc' = "line_found"
    /\ UNCHANGED <<stride, all_spots, prev_measured, new_measured, rest_spots,
                   jump, summary, chainVars, pureVars>>

\* main, lines 373-376; rest_spots.front() of an empty sequence and a
\* division by 0 are undefined and end the run
PrintSummary ==
    /\ pc = "line_found"
    /\ IF rest_spots # <<>> /\ rest_spots[1] # 0
       THEN /\ summary' =
                 [associativity |-> jump \div rest_spots[1],
                  cache_size |-> jump * initial_stride * sizeof_slot,
                  cache_line_size |-> cache_line_size * sizeof_slot]
            /\ pc' = "done"
       ELSE summary' = summary /\ pc' = "trapped"
    /\ UNCHANGED <<stride, all_spots, prev_measured, new_measured, batches,
                   lookups, rest_spots, jump, cache_line_size, chainVars,
                   pureVars>>

Next ==
    \/ FindRestSpotsBegin
    \/ RoundReturns
    \/ RoundContinues
    \/ RoundDividesByZero
    \/ FindJump
    \/ FindCacheLineSize
    \/ PrintSummary

Spec == Init /\ [][Next]_vars

\* the largest slot index a builder touches for (stride, spots): slot
\* (spots - 1) * stride + stride / 2, in measure_shuffled (line 134) and in
\* measure_lookbehind (line 149) alike
TouchedMax(stride_, spots) == (spots - 1) * stride_ + stride_ \div 2

(***************************************************************************)
(* Claims about the chain (SpecChain).                                     *)
(***************************************************************************)

\* C1: after create_forward_chain and shuffle, as measure_shuffled runs them
\* for the seed spots + i, the timed walk from slot stride/2 reads each of
\* the `spots` half-stride nodes exactly once in its first `spots` steps and
\* is then back at its start: the chain is one cycle over the live nodes.
\* Stated at the stride main() starts from.
C1_ShuffledChainIsOneCycle ==
    (pc = "walked" /\ trial.method = "shuffled"
                     /\ trial.stride = initial_stride) =>
        /\ ListsOnce(walked.timed, HalfNodes(trial))
        /\ walked.back = trial.stride \div 2

\* C2: after create_forward_chain(stride, spots), from every live node,
\* following the next-pointers `spots` times reads every live node exactly
\* once and ends on the starting node.
C2_ForwardChainIsOneCycle ==
    pc = "chained" =>
        \A n \in LiveNodes(trial) :
            /\ ListsOnce(Path(a, n, trial.spots), LiveNodes(trial))
            /\ Chase(a, n, trial.spots) = n

\* a chain of several nodes, built over the remains of earlier trials
C2_Witness ==
    /\ pc = "chained"
    /\ trial.spots >= 3
    /\ trial.stride >= 2
    /\ trial.i >= 1

(***************************************************************************)
(* Claims about find_jump (SpecJump).                                      *)
(***************************************************************************)

\* C3 as stated: a curve with a single-point spike that returns to the
\* baseline never makes find_jump trigger, whatever the height of the
\* spike: it returns 0.
C3_SpikeNeverTriggers ==
    pc = "jump_done" =>
        \A p \in 1..(CurveLen - 1) : \A base \in Durations :
            IsSpike(p, base) => answer = 0

\* C3 amended: find_jump returns 0 on a single-point spike when the spike
\* is at the first position, or is lower than 1.12 times the baseline, or
\* is followed by a baseline position and lower than 1.24 times the
\* baseline; on any other single-point spike it returns the spots value
\* right before the spike.
C3_LowSpikeNeverTriggers ==
    pc = "jump_done" =>
        \A p \in 1..CurveLen : \A base \in Durations :
            IsSpike(p, base) =>
                IF \/ p = 1
                   \/ CurveAt(p) * 100 < 112 * base
                   \/ p < CurveLen /\ CurveAt(p) * 100 < 124 * base
                THEN answer = 0
                ELSE answer = curve.search_spots[p - 1]

\* a spike of 1.23 times the baseline in the middle of the curve
C3_Witness ==
    /\ pc = "jump_done"
    /\ CurveLen >= 3
    /\ IsSpike(2, 100)
    /\ CurveAt(2) = 123

\* C4: on a curve flat at 1.0 for its first k >= 1 positions and at least
\* 1.2 at every later position, find_jump returns the spots value at
\* position k, the one right before the step.
C4_StepFound ==
    pc = "jump_done" =>
        \A k \in 1..CurveLen :
            IsStep(k) => answer = curve.search_spots[k]

\* a step after two flat positions, followed by two high ones
C4_Witness ==
    /\ pc = "jump_done"
    /\ CurveLen >= 4
    /\ IsStep(2)
    /\ answer = curve.search_spots[2]

(***************************************************************************)
(* Claims about find_cache_line_size (SpecLine).                           *)
(***************************************************************************)

\* C5 as stated: for every sequence of medians, also one whose ratios are
\* all below 1, find_cache_line_size returns half of a stride whose
\* median-to-previous-median ratio is the maximum over all transitions.
C5_HalfOfMaxRatioStride ==
    pc = "line_done" =>
        \E i \in Transitions :
            IsMaxRatio(i) /\ answer = SweepStrides[i] \div 2

\* C5 amended: when some ratio is at least 1, find_cache_line_size returns
\* half of the stride whose ratio is the maximum (the largest such stride
\* when several reach it); when every ratio is below 1 it returns 1.
C5_HalfOfMaxRatioStrideOrOne ==
    pc = "line_done" =>
        IF SomeRatioAtLeastOne
        THEN \E i \in Transitions :
                /\ IsMaxRatio(i)
                /\ \A j \in Transitions : IsMaxRatio(j) => j <= i
                /\ answer = SweepStrides[i] \div 2
        ELSE answer = 1

\* the medians 10, 10, 10, 40, 40, ... in units of 10: the answer is 8
C5_Witness ==
    /\ pc = "line_done"
    /\ curve[1] = 1 /\ curve[2] = 1 /\ curve[3] = 1
    /\ \A k \in 4..Len(SweepStrides) : curve[k] = 4
    /\ answer = 8

(***************************************************************************)
(* Claims about the pipeline (Spec).                                       *)
(***************************************************************************)

\* C6: every (stride, spots) pair the pipeline hands to a pattern builder
\* satisfies spots * stride <= 2^24, the arena's slot count, and every slot
\* index the builder touches is below the arena size.
C6_TrialsFitArena ==
    \A b \in batches : \A sp \in b.spots :
        /\ U64IsSmall(b.stride)
        /\ U64Val(b.stride) >= 1
        /\ sp >= 1
        /\ sp <= max_check_mem \div U64Val(b.stride)
        /\ TouchedMax(U64Val(b.stride), sp) < max_check_mem

\* the sweep's trials fill the arena exactly
C6_Witness ==
    /\ pc = "line_found"
    /\ \E b \in batches : \E sp \in b.spots :
          /\ b.method = "lookbehind"
          /\ sp * U64Val(b.stride) = max_check_mem

\* C7: the stride-doubling loop always returns: it never reaches a stride
\* for which make_spots yields an empty sequence, and never divides by zero.
C7_LoopNeverRunsDry ==
    /\ pc # "trapped"
    /\ pc = "doubling" => all_spots # <<>>

\* C8: whenever find_rest_spots has returned, the returned sequence is not
\* empty and its first element is at least 1; and when find_jump returns 0
\* the summary holds associativity 0 and cache_size 0.
C8_ZeroJumpPrintsZeros ==
    /\ pc \in {"rest_found", "jump_found", "line_found", "done"} =>
          rest_spots # <<>> /\ rest_spots[1] >= 1
    /\ (pc = "done" /\ jump = 0) =>
          summary.associativity = 0 /\ summary.cache_size = 0

\* the summary was printed after find_jump found no transition
C8_Witness == pc = "done" /\ jump = 0 /\ summary.associativity = 0

\* C9: the half distance of a spots value s is taken at s halved and
\* rounded down to at least 1, the halved value inserted for s.
C9_HalfKeyIsInsertedHalf ==
    \A l \in lookups :
        l.map = "half" =>
            l.key = (IF l.spots \div 2 >= 1 THEN l.spots \div 2 ELSE 1)

\* C10: every list summed by find_rest_spots or find_jump belongs to a
\* spots value of the batch that was measured, and holds 9 samples.
C10_SummedListsHoldNine == \A l \in lookups : l.size = iterations

\* a round that sums the list of a halved value other than s itself
C10_Witness ==
    /\ pc = "doubling"
    /\ \E l \in lookups : l.map = "half" /\ l.key # l.spots /\ l.size = 9

=============================================================================
